---- MODULE Spec2Model ----
(***************************************************************************)
(* Model of typescript/infra/config/networks/testnets.ts: the static       *)
(* per-network transaction configuration table `configs`, the class        *)
(* DomainConnection (one connection record per network) and the class      *)
(* MultiProvider (the registry of connection records).                     *)
(*                                                                         *)
(* JavaScript values are modelled as follows.                              *)
(*   optional value       <<>> for undefined, <<v>> for the value v        *)
(*   ethers provider,     a handle [type, id, provider]: type is           *)
(*   ethers Signer        "provider" or "signer", id the RPC URL or the    *)
(*                        private key, provider the provider a signer      *)
(*                        object is connected to (undefined on a           *)
(*                        provider handle).  A Signer's provider is        *)
(*                        read-only and Signer.connect returns a NEW       *)
(*                        signer object (ethers v5)                        *)
(*   ethers.Overrides     a set of <<field, value>> pairs, {} being {}     *)
(*   number / BigNumber   [isBigNumber, digits], digits in decimal         *)
(*   object with keys     a sequence of <<key, value>> in insertion order  *)
(***************************************************************************)
EXTENDS Integers, Sequences, FiniteSets, TLC

None == <<>>
Some(v) == <<v>>

(* ------------------------------ bounds --------------------------------- *)
MaxConfirmations == 2   \* confirmations passed to registerConfirmations
MaxList == 3            \* length of the identifier list given to the constructor
MaxOps == 2             \* caller operations after construction
MaxQuery == 2           \* length of the list given to getChains

(* --------------------------- value universes --------------------------- *)
Networks == {"alfajores", "fuji"}     \* the chains calls are made on
QueryNames == Networks \cup {"kovan"} \* the chains getChains is asked for
RpcURLs == {"rpcA", "rpcB"}
PrivateKeys == {"key1"}

Number(digits) == [isBigNumber |-> FALSE, digits |-> digits]
BigNumberFrom(digits) == [isBigNumber |-> TRUE, digits |-> digits]

FeeFields == {"gasPrice", "gasLimit"}

(* ----------------------- static configuration table -------------------- *)
TransactionConfig(confirmations, overrides) ==
    [confirmations |-> confirmations, overrides |-> overrides]

alfajores == TransactionConfig(1, {})

fuji == TransactionConfig(1, {})

goerli == TransactionConfig(3, {<<"gasPrice", BigNumberFrom("10000000000")>>})

\* mutant of kovan: the gas limit written under the unrecognized name "gas"
kovanGasTypo ==
    TransactionConfig(3, {<<"gasPrice", BigNumberFrom("10000000000")>>,
                          <<"gas", Number("15000000")>>})

kovan == TransactionConfig(3, {<<"gasPrice", BigNumberFrom("10000000000")>>,
                               <<"gasLimit", Number("15000000")>>})

mumbai == TransactionConfig(3, {})

rinkarby == TransactionConfig(2, {<<"gasPrice", Number("0")>>,
                                  <<"gasLimit", Number("600000000")>>})

rinkeby == TransactionConfig(3, {})

ropsten == TransactionConfig(3, {<<"gasPrice", BigNumberFrom("10000000000")>>})

\* the object literal _configs, as its entries in insertion order
configs ==
    << <<"alfajores", alfajores>>, <<"fuji", fuji>>, <<"goerli", goerli>>,
       <<"kovan", kovan>>, <<"mumbai", mumbai>>, <<"rinkarby", rinkarby>>,
       <<"rinkeby", rinkeby>>, <<"ropsten", ropsten>> >>


(* ------------------------- ethers handles ------------------------------ *)
\* new ethers.providers.JsonRpcProvider(url)
JsonRpcProvider(url) == [type |-> "provider", id |-> url, provider |-> None]

\* new ethers.Wallet(privatekey): a signer connected to no provider
Wallet(privatekey) == [type |-> "signer", id |-> privatekey, provider |-> None]

\* signer.connect(provider): the value RETURNED is a new signer connected to
\* provider; the receiver is left as it was
connect(signer, provider) == [signer EXCEPT !.provider = Some(provider)]

\* signer.getAddress(): a promise of the address derived from the key
SignerGetAddress(signer) == [promiseOf |-> "address", key |-> signer.id]

Providers == {JsonRpcProvider(url) : url \in RpcURLs}
Signers ==
    {Wallet(k) : k \in PrivateKeys}
      \cup {connect(Wallet(k), p) : k \in PrivateKeys, p \in Providers}

OverridesValues ==
    {{}, {<<"gasPrice", Number("0")>>},
     {<<"gasLimit", Number("15000000")>>},
     {<<"gasPrice", BigNumberFrom("10000000000")>>,
      <<"gasLimit", Number("15000000")>>}}

ConfirmationsValues == 0..MaxConfirmations

(* --------------------------- DomainConnection -------------------------- *)
\* a ?? b on an optional a
Nullish(a, b) == IF a = None THEN b ELSE a[1]

\* interface IDomainConnection: every field optional
IDomainConnection ==
    [provider : {None} \cup {Some(p) : p \in Providers},
     signer : {None} \cup {Some(s) : s \in Signers},
     overrides : {None} \cup {Some(o) : o \in OverridesValues},
     confirmations : {None} \cup {Some(n) : n \in ConfirmationsValues}]

\* the object literal {}
EmptyObject ==
    [provider |-> None, signer |-> None, overrides |-> None,
     confirmations |-> None]

\* mutant of the constructor: the supplied signer is not copied
DomainConnectionNoSigner(dc) ==
    [provider |-> dc.provider,
     signer |-> None,
     overrides |-> Nullish(dc.overrides, {}),
     confirmations |-> Nullish(dc.confirmations, 0)]

\* constructor(dc: IDomainConnection = {})
DomainConnection(dc) ==
    [provider |-> dc.provider,
     signer |-> dc.signer,
     overrides |-> Nullish(dc.overrides, {}),
     confirmations |-> Nullish(dc.confirmations, 0)]

\* mutant of registerOverrides: {...this.overrides, ...overrides}
registerOverridesMerged(this, overrides) ==
    [this EXCEPT !.overrides =
        overrides \cup {old \in this.overrides :
                          \A new \in overrides : new[1] # old[1]}]

registerOverrides(this, overrides) == [this EXCEPT !.overrides = overrides]

registerConfirmations(this, confirmations) ==
    [this EXCEPT !.confirmations = confirmations]

\* this.signer.connect(provider) is an expression statement: the connected
\* signer it returns is dropped and this.signer keeps the object it held
registerProvider(this, provider) ==
    LET dropped == IF this.signer # None
                   THEN Some(connect(this.signer[1], provider))
                   ELSE None
    IN  [this EXCEPT !.provider = Some(provider)]

registerRpcURL(this, url) == registerProvider(this, JsonRpcProvider(url))

\* mutant of registerSigner: the record also takes over the provider the
\* signer arrives with
registerSignerAdoptsProvider(this, signer) ==
    [this EXCEPT !.signer = Some(signer), !.provider = signer.provider]

\* signer.connect(this.provider) is an expression statement as well: the
\* signer stored is the argument itself
registerSigner(this, signer) ==
    LET dropped == IF this.provider # None
                   THEN Some(connect(signer, this.provider[1]))
                   ELSE None
    IN  [this EXCEPT !.signer = Some(signer)]

registerWalletSigner(this, privatekey) ==
    registerSigner(this, Wallet(privatekey))

\* mutant of getConnection: this.provider ?? this.signer
getConnectionProviderFirst(this) ==
    IF this.provider # None THEN this.provider ELSE this.signer

\* this.signer ?? this.provider
getConnection(this) == IF this.signer # None THEN this.signer ELSE this.provider

\* mutant of getAddress: a zero address instead of undefined
getAddressDefaulted(this) ==
    IF this.signer = None THEN Some([promiseOf |-> "address", key |-> "zero"])
    ELSE Some(SignerGetAddress(this.signer[1]))

\* this.signer?.getAddress()
getAddress(this) ==
    IF this.signer = None THEN None ELSE Some(SignerGetAddress(this.signer[1]))

(* ------------------- keyed container (MultiGeneric) -------------------- *)
\* An object with string keys is the sequence of its <<key, value>> entries
\* in insertion order.
Keys(obj) == [i \in 1..Len(obj) |-> obj[i][1]]

HasKey(obj, key) == \E i \in 1..Len(obj) : obj[i][1] = key

IndexOf(obj, key) == CHOOSE i \in 1..Len(obj) : obj[i][1] = key

\* obj[key] = value: an existing key keeps its position, a new key is appended
SetKey(obj, key, value) ==
    IF HasKey(obj, key)
    THEN [obj EXCEPT ![IndexOf(obj, key)] = <<key, value>>]
    ELSE Append(obj, <<key, value>>)

RECURSIVE ObjectFromEntriesUpTo(_, _)
ObjectFromEntriesUpTo(ents, n) ==
    IF n = 0 THEN <<>>
    ELSE SetKey(ObjectFromEntriesUpTo(ents, n - 1), ents[n][1], ents[n][2])

\* Object.fromEntries(entries)
ObjectFromEntries(ents) == ObjectFromEntriesUpTo(ents, Len(ents))

\* MultiGeneric.get(chain): a lookup error for a chain that was not configured
get(map, chain) ==
    IF HasKey(map, chain)
    THEN [threw |-> FALSE, value |-> Some(map[IndexOf(map, chain)][2])]
    ELSE [threw |-> TRUE, value |-> None]

\* MultiGeneric.values(): the records in insertion order
values(map) == [i \in 1..Len(map) |-> map[i][2]]

\* MultiGeneric.entries(): the [chain, record] pairs in insertion order
entries(map) == map

(* ----------------------------- MultiProvider --------------------------- *)
\* a constructor argument: an array of chain names, or an object (ChainMap)
\* from chain name to IDomainConnection
ArrayOf(items) == [isArray |-> TRUE, items |-> items]
ObjectOf(ents) == [isArray |-> FALSE, items |-> ents]

\* constructor(networks): the chainMap handed to super()
MultiProvider(networks) ==
    LET params == IF networks.isArray
                  THEN [i \in 1..Len(networks.items) |->
                          <<networks.items[i], EmptyObject>>]
                  ELSE networks.items
        providerEntries == [i \in 1..Len(params) |->
                              <<params[i][1], DomainConnection(params[i][2])>>]
    IN  ObjectFromEntries(providerEntries)

getDomainConnection(map, network) == get(map, network)

\* chains.includes(chain)
includes(chains, chain) == \E i \in 1..Len(chains) : chains[i] = chain

\* mutant of getChains: chains.map((chain) => [chain, this.get(chain)]) over
\* the configured chains of the list, in the list's order
getChainsInListOrder(map, chains) ==
    LET known == SelectSeq(chains, LAMBDA c : HasKey(map, c))
    IN  [i \in 1..Len(known) |-> map[IndexOf(map, known[i])]]

\* this.entries().filter(([chain]) => chains.includes(chain))
getChains(map, chains) ==
    SelectSeq(entries(map), LAMBDA e : includes(chains, e[1]))

getAll(map) == values(map)

\* this.values().map((dc) => dc.provider!.ready): reading .ready of an
\* undefined provider throws a TypeError out of ready(); otherwise one
\* readiness promise per record, in registry order
readyChecks(map) ==
    IF \E i \in 1..Len(map) : values(map)[i].provider = None
    THEN [threw |-> TRUE, promises |-> <<>>]
    ELSE [threw |-> FALSE,
          promises |-> [i \in 1..Len(map) |->
                          [provider |-> values(map)[i].provider[1],
                           state |-> "pending", reacted |-> FALSE]]]

\* Promise.all(promises) at the time of the call: fulfilled at once for an
\* empty array, pending otherwise
PromiseAll(promises) == IF Len(promises) = 0 THEN "fulfilled" ELSE "pending"

\* mutant of PromiseAllReact: Promise.allSettled followed by a scan, which
\* reports a rejection only when every promise has settled and reacted
PromiseAllSettledReact(aggregate, promises, i) ==
    IF aggregate # "pending" THEN aggregate
    ELSE IF \E j \in 1..Len(promises) : j # i /\ ~promises[j].reacted
         THEN "pending"
    ELSE IF \E j \in 1..Len(promises) : promises[j].state = "rejected"
         THEN "rejected"
         ELSE "fulfilled"

\* Promise.all's reaction to the settlement of element i: the first rejection
\* rejects the aggregate, the last fulfilment fulfils it, and a settled
\* aggregate never changes
PromiseAllReact(aggregate, promises, i) ==
    IF aggregate # "pending" THEN aggregate
    ELSE IF promises[i].state = "rejected" THEN "rejected"
    ELSE IF \A j \in 1..Len(promises) :
               j # i => promises[j].state = "fulfilled" /\ promises[j].reacted
         THEN "fulfilled"
         ELSE "pending"

(* ------------------------------- inputs -------------------------------- *)
SeqsUpTo(S, n) == UNION {[1..k -> S] : k \in 0..n}

\* arrays of chain names (repetitions allowed by the type Networks[])
ArrayInputs == {ArrayOf(l) : l \in SeqsUpTo(Networks, MaxList)}

\* lists of chain names asked of getChains
ChainLists == SeqsUpTo(QueryNames, MaxQuery)

\* a TransactionConfig used as an IDomainConnection
AsConnection(tc) ==
    [provider |-> None, signer |-> None, overrides |-> Some(tc.overrides),
     confirmations |-> Some(tc.confirmations)]

configsAsConnections ==
    [i \in 1..Len(configs) |-> <<configs[i][1], AsConnection(configs[i][2])>>]

\* an IDomainConnection that supplies a provider and nothing else
ProviderOnly ==
    {dc \in IDomainConnection :
        /\ dc.provider # None
        /\ dc.signer = None /\ dc.overrides = None /\ dc.confirmations = None}

\* objects: the whole configuration table, its restriction to a set of
\* chains, every one-chain object {alfajores: dc}, and the two-chain objects
\* {alfajores: dc1, fuji: dc2} that supply providers only
ObjectInputs ==
    {ObjectOf(configsAsConnections)}
      \cup {ObjectOf(SelectSeq(configsAsConnections, LAMBDA e : e[1] \in S)) :
              S \in SUBSET QueryNames}
      \cup {ObjectOf(<< <<"alfajores", dc>> >>) : dc \in IDomainConnection}
      \cup {ObjectOf(<< <<"alfajores", dc1>>, <<"fuji", dc2>> >>) :
              dc1 \in ProviderOnly, dc2 \in ProviderOnly}

(* ---------------------------- state machine ---------------------------- *)
VARIABLES
    networks,    \* the constructor's argument; the registry keeps no reference
                 \* to it, so it is undefined once the first call is made
    constructed, \* the set of chain names the argument listed
    chainMap,    \* the registry: <<chain, DomainConnection>> in insertion order
    ret,         \* the last call made on the registry or a record, and its outcome
    allReady,    \* the promise of the last ready(): none/threw/pending/fulfilled/rejected
    promises,    \* the readiness promises that ready() call waits for
    ops          \* number of calls made

vars == <<networks, constructed, chainMap, ret, allReady, promises, ops>>

RecordCalls ==
    {"registerOverrides", "registerConfirmations", "registerProvider",
     "registerRpcURL", "registerSigner", "registerWalletSigner",
     "getConnection", "getAddress", "getDomainConnection"}

Call(op, network, arg, threw, value) ==
    [op |-> op, network |-> network, arg |-> arg, threw |-> threw,
     value |-> value]

Init ==
    /\ networks \in ArrayInputs \cup ObjectInputs
    /\ constructed = IF networks.isArray
                     THEN {networks.items[i] : i \in 1..Len(networks.items)}
                     ELSE {networks.items[i][1] : i \in 1..Len(networks.items)}
    /\ chainMap = MultiProvider(networks)
    /\ ret = Call("new", None, None, FALSE, None)
    /\ allReady = "none"
    /\ promises = <<>>
    /\ ops = 0

\* the bookkeeping of a call on the record of network: the call is counted,
\* its outcome recorded, and nothing but the record is touched
Returns(op, network, arg, value) ==
    /\ ops' = ops + 1
    /\ ret' = Call(op, Some(network), arg, FALSE, value)
    /\ networks' = None
    /\ UNCHANGED <<constructed, allReady, promises>>

\* getDomainConnection(network).method(arg) on a configured network
RegisterOverrides(network, overrides) ==
    LET dc == getDomainConnection(chainMap, network)
    IN  /\ ops < MaxOps
        /\ ~dc.threw
        /\ chainMap' = SetKey(chainMap, network, registerOverrides(dc.value[1], overrides))
        /\ Returns("registerOverrides", network, Some(overrides), Some(overrides))

RegisterConfirmations(network, confirmations) ==
    LET dc == getDomainConnection(chainMap, network)
    IN  /\ ops < MaxOps
        /\ ~dc.threw
        /\ chainMap' = SetKey(chainMap, network, registerConfirmations(dc.value[1], confirmations))
        /\ Returns("registerConfirmations", network, Some(confirmations), Some(confirmations))

RegisterProvider(network, provider) ==
    LET dc == getDomainConnection(chainMap, network)
    IN  /\ ops < MaxOps
        /\ ~dc.threw
        /\ chainMap' = SetKey(chainMap, network, registerProvider(dc.value[1], provider))
        /\ Returns("registerProvider", network, Some(provider), None)

RegisterRpcURL(network, url) ==
    LET dc == getDomainConnection(chainMap, network)
    IN  /\ ops < MaxOps
        /\ ~dc.threw
        /\ chainMap' = SetKey(chainMap, network, registerRpcURL(dc.value[1], url))
        /\ Returns("registerRpcURL", network, Some(url), None)

RegisterSigner(network, signer) ==
    LET dc == getDomainConnection(chainMap, network)
    IN  /\ ops < MaxOps
        /\ ~dc.threw
        /\ chainMap' = SetKey(chainMap, network, registerSigner(dc.value[1], signer))
        /\ Returns("registerSigner", network, Some(signer), None)

RegisterWalletSigner(network, privatekey) ==
    LET dc == getDomainConnection(chainMap, network)
    IN  /\ ops < MaxOps
        /\ ~dc.threw
        /\ chainMap' = SetKey(chainMap, network, registerWalletSigner(dc.value[1], privatekey))
        /\ Returns("registerWalletSigner", network, Some(privatekey), None)

GetConnection(network) ==
    LET dc == getDomainConnection(chainMap, network)
    IN  /\ ops < MaxOps
        /\ ~dc.threw
        /\ chainMap' = SetKey(chainMap, network, dc.value[1])
        /\ Returns("getConnection", network, None, getConnection(dc.value[1]))

GetAddress(network) ==
    LET dc == getDomainConnection(chainMap, network)
    IN  /\ ops < MaxOps
        /\ ~dc.threw
        /\ chainMap' = SetKey(chainMap, network, dc.value[1])
        /\ Returns("getAddress", network, None, getAddress(dc.value[1]))

GetDomainConnection(network) ==
    LET dc == getDomainConnection(chainMap, network)
    IN  /\ ops < MaxOps
        /\ ~dc.threw
        /\ ops' = ops + 1
        /\ ret' = Call("getDomainConnection", Some(network), None, FALSE,
                       dc.value)
        /\ networks' = None
        /\ UNCHANGED <<constructed, chainMap, allReady, promises>>

\* mutant of LookupError: a record is created for the unknown network
LookupCreates(op, network) ==
    /\ ops < MaxOps
    /\ ~HasKey(chainMap, network)
    /\ ops' = ops + 1
    /\ ret' = Call(op, Some(network), None, FALSE, None)
    /\ chainMap' = Append(chainMap, <<network, DomainConnection(EmptyObject)>>)
    /\ networks' = None
    /\ UNCHANGED <<constructed, allReady, promises>>

\* getDomainConnection(network) on a network that was not configured: the
\* lookup fails before any method of a record runs
LookupError(op, network) ==
    LET dc == getDomainConnection(chainMap, network)
    IN  /\ ops < MaxOps
        /\ dc.threw
        /\ ops' = ops + 1
        /\ ret' = Call(op, Some(network), None, TRUE, None)
        /\ networks' = None
        /\ UNCHANGED <<constructed, chainMap, allReady, promises>>

GetChains(chains) ==
    /\ ops < MaxOps
    /\ ops' = ops + 1
    /\ ret' = Call("getChains", None, Some(chains), FALSE,
                   Some(getChains(chainMap, chains)))
    /\ networks' = None
    /\ UNCHANGED <<constructed, chainMap, allReady, promises>>

GetAll ==
    /\ ops < MaxOps
    /\ ops' = ops + 1
    /\ ret' = Call("getAll", None, None, FALSE, Some(getAll(chainMap)))
    /\ networks' = None
    /\ UNCHANGED <<constructed, chainMap, allReady, promises>>

\* ready(): the call itself; the promises settle in later steps
Ready ==
    LET issued == readyChecks(chainMap)
    IN  /\ ops < MaxOps
        /\ ops' = ops + 1
        /\ ret' = Call("ready", None, None, issued.threw, None)
        /\ promises' = issued.promises
        /\ allReady' = IF issued.threw THEN "threw"
                       ELSE PromiseAll(issued.promises)
        /\ networks' = None
        /\ UNCHANGED <<constructed, chainMap>>

\* the network behind provider i answers, or fails to: provider.ready settles
Settle(i, outcome) ==
    /\ i \in 1..Len(promises)
    /\ promises[i].state = "pending"
    /\ promises' = [promises EXCEPT ![i].state = outcome]
    /\ UNCHANGED <<networks, constructed, chainMap, ret, allReady, ops>>

\* the reaction Promise.all attached to promise i runs
React(i) ==
    /\ i \in 1..Len(promises)
    /\ promises[i].state # "pending"
    /\ ~promises[i].reacted
    /\ promises' = [promises EXCEPT ![i].reacted = TRUE]
    /\ allReady' = PromiseAllReact(allReady, promises, i)
    /\ UNCHANGED <<networks, constructed, chainMap, ret, ops>>

Next ==
    \/ \E n \in Networks, o \in OverridesValues : RegisterOverrides(n, o)
    \/ \E n \in Networks, c \in ConfirmationsValues : RegisterConfirmations(n, c)
    \/ \E n \in Networks, p \in Providers : RegisterProvider(n, p)
    \/ \E n \in Networks, u \in RpcURLs : RegisterRpcURL(n, u)
    \/ \E n \in Networks, s \in Signers : RegisterSigner(n, s)
    \/ \E n \in Networks, k \in PrivateKeys : RegisterWalletSigner(n, k)
    \/ \E n \in Networks : GetConnection(n)
    \/ \E n \in Networks : GetAddress(n)
    \/ \E n \in Networks : GetDomainConnection(n)
    \/ \E n \in Networks, op \in RecordCalls : LookupError(op, n)
    \/ \E l \in ChainLists : GetChains(l)
    \/ GetAll
    \/ Ready
    \/ \E i \in 1..Len(promises), o \in {"fulfilled", "rejected"} : Settle(i, o)
    \/ \E i \in 1..Len(promises) : React(i)

Spec == Init /\ [][Next]_vars

(* ------------------------------ properties ----------------------------- *)
IsConfigured(network) == HasKey(chainMap, network)

RecordOf(network) == chainMap[IndexOf(chainMap, network)][2]

\* the last call was op, made on a record of the registry, and returned
Returned(op) == ret.op = op /\ ~ret.threw

ProviderCalls == {"registerProvider", "registerRpcURL"}
SignerCalls == {"registerSigner", "registerWalletSigner"}

\* C1: after a registerProvider or registerSigner call (in either order),
\* whenever the record holds both a signer and a provider, the signer held is
\* connected to the provider held.
C1_SignerRoutesThroughProvider ==
    (ret.op \in ProviderCalls \cup SignerCalls /\ ~ret.threw) =>
        LET dc == RecordOf(ret.network[1])
        IN  (dc.signer # None /\ dc.provider # None) =>
                dc.signer[1].provider = dc.provider

\* C2: getConnection returns the record's signer whenever a signer is
\* registered, the provider only when no signer is registered and a provider
\* is, and undefined when neither is registered.
C2_GetConnectionPrefersSigner ==
    Returned("getConnection") =>
        LET dc == RecordOf(ret.network[1])
        IN  /\ dc.signer # None => ret.value = dc.signer
            /\ (dc.signer = None /\ dc.provider # None) => ret.value = dc.provider
            /\ (dc.signer = None /\ dc.provider = None) => ret.value = None

C2_Witness ==
    /\ Returned("getConnection")
    /\ RecordOf(ret.network[1]).signer # None
    /\ RecordOf(ret.network[1]).provider # None
    /\ ret.value = RecordOf(ret.network[1]).signer

\* C3: ready() throws exactly when some record has no provider; otherwise it
\* waits on one readiness promise per record, for that record's provider; it
\* is fulfilled only when every one of them is fulfilled, and it is rejected
\* as soon as the rejection of one of them is handled, whatever the state of
\* the others.
C3_ReadyAllOrNothing ==
    /\ ret.op = "ready" =>
          /\ ret.threw <=> \E i \in 1..Len(chainMap) : chainMap[i][2].provider = None
          /\ ret.threw => allReady = "threw" /\ promises = <<>>
          /\ ~ret.threw =>
                /\ Len(promises) = Len(chainMap)
                /\ \A i \in 1..Len(chainMap) :
                      chainMap[i][2].provider = Some(promises[i].provider)
    /\ allReady = "fulfilled" =>
          \A i \in 1..Len(promises) : promises[i].state = "fulfilled"
    /\ (\A i \in 1..Len(promises) :
            promises[i].state = "fulfilled" /\ promises[i].reacted)
          => allReady \in {"fulfilled", "none", "threw"}
    /\ allReady = "rejected" <=>
          \E i \in 1..Len(promises) :
              promises[i].state = "rejected" /\ promises[i].reacted
    /\ allReady = "pending" =>
          \E i \in 1..Len(promises) : ~promises[i].reacted

C3_Witness ==
    /\ allReady = "rejected"
    /\ \E i \in 1..Len(promises) : promises[i].state = "pending"

\* the record a constructor call yields when the argument supplies nothing
DefaultRecord ==
    [provider |-> None, signer |-> None, overrides |-> {}, confirmations |-> 0]

Distinct(seq) == \A i, j \in 1..Len(seq) : seq[i] = seq[j] => i = j

\* C4: construction yields exactly one record per identifier supplied; from
\* an array of N distinct identifiers, N records with provider and signer
\* undefined, overrides {} and confirmations 0, in the array's order; from
\* an object, one record per entry, holding every field the entry supplies
\* and the array defaults for the others.
C4_Construction ==
    ret.op = "new" =>
        /\ {chainMap[i][1] : i \in 1..Len(chainMap)} = constructed
        /\ Len(chainMap) = Cardinality(constructed)
        /\ (networks.isArray /\ Distinct(networks.items)) =>
              /\ Len(chainMap) = Len(networks.items)
              /\ \A i \in 1..Len(chainMap) :
                    chainMap[i] = <<networks.items[i], DefaultRecord>>
        /\ ~networks.isArray =>
              /\ Len(chainMap) = Len(networks.items)
              /\ \A i \in 1..Len(chainMap) :
                    LET dc == networks.items[i][2]
                        rec == chainMap[i][2]
                    IN  /\ chainMap[i][1] = networks.items[i][1]
                        /\ rec.provider = dc.provider
                        /\ rec.signer = dc.signer
                        /\ rec.overrides =
                              IF dc.overrides = None THEN DefaultRecord.overrides
                              ELSE dc.overrides[1]
                        /\ rec.confirmations =
                              IF dc.confirmations = None
                              THEN DefaultRecord.confirmations
                              ELSE dc.confirmations[1]

C4_Witness ==
    /\ ret.op = "new"
    /\ ~networks.isArray
    /\ Len(networks.items) = 1
    /\ networks.items[1][2].signer # None
    /\ networks.items[1][2].confirmations = Some(MaxConfirmations)
    /\ networks.items[1][2].overrides = None
    /\ chainMap[1][2].signer = networks.items[1][2].signer
    /\ chainMap[1][2].confirmations = MaxConfirmations
    /\ chainMap[1][2].overrides = {}

\* C5: getChains(list) returns, without an error, exactly the entries of the
\* registry whose chain occurs in list, each once, in the registry's order.
C5_GetChainsFilters ==
    ret.op = "getChains" =>
        LET list == ret.arg[1]
            found == ret.value[1]
        IN  /\ ~ret.threw
            /\ \A i \in 1..Len(found) :
                  /\ \E k \in 1..Len(chainMap) : chainMap[k] = found[i]
                  /\ \E q \in 1..Len(list) : list[q] = found[i][1]
            /\ \A k \in 1..Len(chainMap) :
                  (\E q \in 1..Len(list) : list[q] = chainMap[k][1]) =>
                      \E i \in 1..Len(found) : found[i] = chainMap[k]
            /\ \A i, j \in 1..Len(found) :
                  i < j => IndexOf(chainMap, found[i][1])
                             < IndexOf(chainMap, found[j][1])

C5_Witness ==
    /\ ret.op = "getChains"
    /\ Keys(chainMap) = <<"alfajores", "fuji", "kovan">>
    /\ ret.arg[1] = <<"kovan", "alfajores">>
    /\ Keys(ret.value[1]) = <<"alfajores", "kovan">>

RegisterCalls ==
    ProviderCalls \cup SignerCalls
      \cup {"registerOverrides", "registerConfirmations"}

\* the fields of a record a call may leave changed
Registers(op) ==
    IF op \in ProviderCalls THEN {"provider"}
    ELSE IF op \in SignerCalls THEN {"signer"}
    ELSE IF op = "registerOverrides" THEN {"overrides"}
    ELSE {"confirmations"}

\* C6: a register call on the record of network X leaves the record of every
\* other network as it was, and in the record of X leaves every field but
\* the one it registers as it was.
C6_RegisterFrame ==
    [][(ops' = ops + 1 /\ ret'.op \in RegisterCalls /\ ~ret'.threw) =>
          /\ Len(chainMap') = Len(chainMap)
          /\ \A i \in 1..Len(chainMap) :
                /\ chainMap'[i][1] = chainMap[i][1]
                /\ chainMap[i][1] # ret'.network[1] => chainMap'[i] = chainMap[i]
                /\ \A f \in {"provider", "signer", "overrides", "confirmations"}
                         \ Registers(ret'.op) :
                      chainMap'[i][2][f] = chainMap[i][2][f]]_vars

C6_Witness ==
    /\ Returned("registerConfirmations")
    /\ ret.network = Some("alfajores")
    /\ ret.arg = Some(MaxConfirmations)
    /\ Keys(chainMap) = <<"alfajores", "fuji">>
    /\ chainMap[1][2].confirmations = MaxConfirmations
    /\ chainMap[2][2].confirmations = 0

\* C7: after registerOverrides(o) the record's overrides are exactly o, and
\* after registerConfirmations(n) its confirmations are exactly n.
C7_WholesaleReplacement ==
    /\ Returned("registerOverrides") =>
          RecordOf(ret.network[1]).overrides = ret.arg[1]
    /\ Returned("registerConfirmations") =>
          RecordOf(ret.network[1]).confirmations = ret.arg[1]

C7_Witness ==
    /\ Returned("registerOverrides")
    /\ ops = MaxOps
    /\ ret.arg = Some({<<"gasLimit", Number("15000000")>>})
    /\ RecordOf(ret.network[1]).overrides = {<<"gasLimit", Number("15000000")>>}

\* C8 as claimed: getAddress on a record without a signer, and ready() on a
\* registry with a record without a provider, end in an error.
C8_MissingHandleFailsLoudly ==
    /\ (ret.op = "getAddress" /\ IsConfigured(ret.network[1])
           /\ RecordOf(ret.network[1]).signer = None) => ret.threw
    /\ (ret.op = "ready"
           /\ \E i \in 1..Len(chainMap) : chainMap[i][2].provider = None)
          => ret.threw

\* C8 as amended: getAddress on a record without a signer returns undefined
\* and raises nothing (with a signer it returns the promise of that signer's
\* address); ready() on a registry with a record without a provider ends in
\* an error.
C8_GetAddressAbsentReadyThrows ==
    /\ Returned("getAddress") =>
          LET dc == RecordOf(ret.network[1])
          IN  /\ dc.signer = None => ret.value = None
              /\ dc.signer # None =>
                    ret.value = Some(SignerGetAddress(dc.signer[1]))
    /\ (ret.op = "getAddress" /\ IsConfigured(ret.network[1])) => ~ret.threw
    /\ (ret.op = "ready"
           /\ \E i \in 1..Len(chainMap) : chainMap[i][2].provider = None)
          => ret.threw

C8_Witness ==
    /\ Returned("getAddress")
    /\ RecordOf(ret.network[1]).signer = None
    /\ ret.value = None

EightNetworks ==
    {"alfajores", "fuji", "goerli", "kovan", "mumbai", "rinkarby", "rinkeby",
     "ropsten"}

WellFormed(confirmations, overrides) ==
    /\ confirmations \in Nat
    /\ \A field \in overrides : field[1] \in FeeFields

\* C10: the configuration table has exactly one record for each of the eight
\* networks, every confirmations is a non-negative integer and every
\* overrides has no field other than gasPrice and gasLimit; a registry
\* constructed from the table starts with the same eight well-formed records.
C10_ConfigsWellFormed ==
    /\ Len(configs) = Cardinality(EightNetworks)
    /\ {configs[i][1] : i \in 1..Len(configs)} = EightNetworks
    /\ \A i \in 1..Len(configs) :
          WellFormed(configs[i][2].confirmations, configs[i][2].overrides)
    /\ (ret.op = "new" /\ constructed = EightNetworks) =>
          /\ Len(chainMap) = Cardinality(EightNetworks)
          /\ \A i \in 1..Len(chainMap) :
                WellFormed(chainMap[i][2].confirmations, chainMap[i][2].overrides)

C10_Witness ==
    /\ ret.op = "new"
    /\ Keys(chainMap) = Keys(configs)
    /\ \A i \in 1..Len(configs) :
          /\ chainMap[i][2].confirmations = configs[i][2].confirmations
          /\ chainMap[i][2].overrides = configs[i][2].overrides

====
